---- MODULE Spec2Model ----
(***************************************************************************)
(* A model of download-github-releases.py: the retry loop                  *)
(* (perform_with_backoff), the paginator (get_paginated), the fetcher      *)
(* (download_file), the digest (shasum) and the sync driver (main).        *)
(*                                                                         *)
(* The program is one thread of control.  Each function is a small state   *)
(* machine with its own record (bk, gen, dl, main); a caller starts a      *)
(* callee by putting its record in the callee's first state and continues  *)
(* when the callee's record says "returned" or "raised".                   *)
(***************************************************************************)
EXTENDS Integers, Sequences, FiniteSets, TLC

\* ------------------------------------------------------------- bounds

\* Retryable outcomes the remote may give to one perform_with_backoff call
\* of the unit specifications (the loop itself has no maximum).
MaxRetries == 5
\* Calls made by the caller of the unit specification of the retry loop.
MaxCalls == 2
\* Retryable outcomes the remote may give over the runs of main, or to one
\* paginated sequence of the unit specification of the paginator.
MaxRunRetries == 2
\* Assets the remote side replaces over the runs of main.
MaxChanges == 1
\* Runs of main, one after the other, over one local mirror.
MaxRuns == 3
\* Failures from outside over the runs of main: outcomes that end a request
\* with an error, a body stream that breaks, a termination of the process;
\* and the runs of main when there are such failures.
MaxFaults == 1
MaxFaultRuns == 2
\* The page chains of the unit specification of the paginator: at most
\* MaxPages pages of at most MaxPerPage items.
MaxPages == 3
MaxPerPage == 2
\* The depth of the directory trees of the unit specification of shasum.
MaxDepth == 1

\* ------------------------------------------------- perform_with_backoff

\* The outcomes of one attempt fn(url, ...): an HTTP status, or an exception.
\* http.client.RemoteDisconnected is the exception the loop catches; every
\* other exception of fn (ConnectionError stands for them) is not caught.
RemoteDisconnected == -1
ConnectionError == -2
\* An exception of response.iter_content while the body is streamed.
StreamError == -3

Statuses == {200, 403, 404, 429, 500, 502, 504}
Outcomes == Statuses \cup {RemoteDisconnected, ConnectionError}

\* line 137: the statuses after which the loop does not break.
RetryStatuses == {403, 429, 502, 504}

\* lines 137-140: the attempt is followed by sleeper.sleep and another attempt.
IsRetryableDrops504(o) == o \in {403, 429, 502} \/ o = RemoteDisconnected
IsRetryableStatusOnly(o) == o \in {403, 429, 502, 504}
IsRetryable(o) == o \in RetryStatuses \/ o = RemoteDisconnected

\* line 144: response.raise_for_status() raises for 4xx and 5xx.
RaisesForStatusOnly5xx(s) == s >= 500 /\ s <= 599
RaisesForStatus(s) == s >= 400 /\ s <= 599

Min(a, b) == IF a <= b THEN a ELSE b

\* line 132: the seed of the backoff.
InitialDuration == 8
\* line 143: duration = min(duration * 2, 60)
NextDurationUncapped(d) == d * 2
NextDuration(d) == Min(d * 2, 60)

NoUrl == [kind |-> "none", id |-> 0, page |-> 0]

\* lines 44-45
ACCEPT_JSON == "application/vnd.github+json"
ACCEPT_STREAM == "application/octet-stream"

\* The accept argument of the call for a URL: ACCEPT_JSON for the pages (lines
\* 162, 168), a release (line 150), the header request and the download of a
\* source archive (lines 234, 241); the default of download_file for an asset
\* (lines 48, 269).
Accept(url) == IF url.kind = "asset" THEN ACCEPT_STREAM ELSE ACCEPT_JSON

\* lines 124-130: kwargs["headers"] as a set of (name, value) pairs; env is
\* the set of the names in os.environ.
HeadersAlwaysBearer(accept, env) ==
  {<<"Accept", accept>>, <<"X-GitHub-Api-Version", "2022-11-28">>,
   <<"Authorization", "Bearer GITHUB_TOKEN">>}
Headers(accept, env) ==
  {<<"Accept", accept>>, <<"X-GitHub-Api-Version", "2022-11-28">>}
    \cup (IF "GITHUB_TOKEN" \in env
            THEN {<<"Authorization", "Bearer GITHUB_TOKEN">>} ELSE {})

\* ------------------------------------------------------ the remote side

\* Sample file contents: a sequence of chunks, one element per chunk that
\* response.iter_content(chunk_size=1024) delivers.
BodyA == <<0, 1>>
\* The same size as BodyA, other bytes.
BodyB == <<1, 0>>
\* Another size.
BodyC == <<1>>
\* No file at a path.
Absent == <<-1>>

\* The repositories, releases and assets of the model, by number.
Repos == 1..2
Releases == 1..3
AssetIds == 1..2

\* The digest algorithms of an asset record: none, the one the program knows,
\* and another one.
Kinds == {"none", "sha256", "sha512"}

PageUrl(repo, k) == [kind |-> "releases", id |-> repo, page |-> k]
AssetUrl(a) == [kind |-> "asset", id |-> a, page |-> 0]
TarballUrl(r) == [kind |-> "tarball", id |-> r, page |-> 0]

AssetPath(a) == [kind |-> "asset", id |-> a]
SourcePath(r) == [kind |-> "source", id |-> r]
ReleaseJsonPath(r) == [kind |-> "_release.json", id |-> r]
DescriptionPath(r) == [kind |-> "_description.md", id |-> r]
NoPath == [kind |-> "none", id |-> 0]
Paths ==
  {AssetPath(a) : a \in AssetIds}
    \cup {SourcePath(r) : r \in Releases}
    \cup {ReleaseJsonPath(r) : r \in Releases}
    \cup {DescriptionPath(r) : r \in Releases}

RepositoryDirectory(repo) == [kind |-> "repository", id |-> repo]
ReleaseDirectory(r) == [kind |-> "release", id |-> r]

VARIABLES
  environ,   \* os.environ: the names of the environment variables that are set
  remote,    \* the remote service: pages of releases per repository, the
             \* assets of each release, each asset's digest kind and body
  sameFs,    \* the temporary directory and the output directory are on one
             \* filesystem (shutil.move renames) or not (it copies)
  local,     \* the local mirror: the content of the file at each path
  dirs,      \* the directories of the local mirror that exist
  bk,        \* perform_with_backoff: pc, caller, url, the headers of kwargs,
             \* duration, the sleeps requested so far, attempts, the headers
             \* the last attempt sent, last outcome, bound response, and of
             \* its Sleeper: the duration that remains, the polls made
  budget,    \* what the environment may still do: retryable outcomes,
             \* failures, replacements of an asset
  requested, \* the URLs an attempt was made for (in this run)
  dl,        \* download_file: pc, url, path, the temporary file, the chunks
             \* received, the error raised, the destination before the call
  gen,       \* get_paginated: pc, repository, page, items yielded of the
             \* page, the item at the yield, everything yielded so far
  main,      \* main: pc, index of the repository, the release, assets done
  run,       \* the run: its number, the download_file calls it made, the
             \* local content each asset comparison saw, how the run before
             \* ended, which assets were replaced remotely since then,
             \* what each earlier run downloaded, the repositories,
             \* releases and assets the run took up, in order, the URLs
             \* whose download_file call returned, and of the run before:
             \* how it ended, what it published and what it skipped
  options,   \* the command line: download_source, repository (a list)
  h          \* the caller of the unit specifications: what it observed

vars ==
  <<environ, remote, sameFs, local, dirs, bk, budget, requested, dl, gen, main,
    run, options, h>>
envVars == <<environ, remote, sameFs>>
drvVars == <<gen, main, run, options>>
fsVars == <<local, dirs>>

\* The body the remote serves for a download URL.
Body(url) ==
  IF url.kind = "asset" THEN remote.body[url.id] ELSE <<url.id>>

BkIdle ==
  [pc |-> "idle", caller |-> "none", url |-> NoUrl, headers |-> {},
   duration |-> 0, sleeps |-> <<>>, attempts |-> 0, wire |-> {},
   outcome |-> 0, response |-> 0, remaining |-> 0, polls |-> 0]

\* lines 123-132: the state of a call before its first attempt.
BkCall(caller, url) ==
  [pc |-> "attempt", caller |-> caller, url |-> url,
   headers |-> Headers(Accept(url), environ),
   duration |-> InitialDuration, sleeps |-> <<>>, attempts |-> 0, wire |-> {},
   outcome |-> 0, response |-> 0, remaining |-> 0, polls |-> 0]

\* The outcomes the remote gives a bounded number of times: those that end
\* the call with an error.
IsFailure(o) == ~IsRetryable(o) /\ (o \notin Statuses \/ RaisesForStatus(o))

\* lines 133-146: one pass of the loop body from the attempt on: fn(url),
\* the status test, and on break raise_for_status / finalize / return.
BkAttempt ==
  /\ bk.pc = "attempt"
  /\ \E o \in Outcomes :
       /\ IsRetryable(o) => budget.retries > 0
       /\ IsFailure(o) => budget.faults > 0
       /\ budget' = IF IsRetryable(o) THEN [budget EXCEPT !.retries = @ - 1]
                    ELSE IF IsFailure(o) THEN [budget EXCEPT !.faults = @ - 1]
                    ELSE budget
       /\ bk' = [bk EXCEPT
            !.attempts = @ + 1,
            !.wire = bk.headers,
            !.outcome = o,
            !.response = IF o \in Statuses THEN o ELSE @,
            !.pc = IF IsRetryable(o) THEN "sleep"
                   ELSE IF o \notin Statuses THEN "raised"
                   ELSE IF RaisesForStatus(o) THEN "raised"
                   ELSE "returned"]
  /\ requested' = requested \cup {bk.url}
  /\ UNCHANGED <<envVars, fsVars, dl, drvVars, h>>

\* lines 141-143: sleeper.sleep(duration); duration = min(duration * 2, 60)
BkSleep ==
  /\ bk.pc = "sleep"
  /\ bk' = [bk EXCEPT
       !.sleeps = Append(@, bk.duration),
       !.duration = NextDuration(@),
       !.pc = "attempt"]
  /\ UNCHANGED <<envVars, fsVars, budget, requested, dl, drvVars, h>>

\* -------------------------------------------------------- download_file

DlIdle ==
  [pc |-> "idle", caller |-> "none", url |-> NoUrl, path |-> NoPath,
   temp |-> Absent, sent |-> 0, error |-> 0, before |-> Absent]

\* lines 48-53: the temporary directory is created and the request is made.
\* before is the destination's content when the call starts.
DlCall(caller, url, path) ==
  [pc |-> "request", caller |-> caller, url |-> url, path |-> path,
   temp |-> Absent, sent |-> 0, error |-> 0, before |-> local[path]]

\* lines 53-55: the response arrived; the temporary file is opened for writing.
DlOpen ==
  /\ dl.pc = "request"
  /\ bk.pc = "returned"
  /\ bk.caller = "download_file"
  /\ dl' = [dl EXCEPT !.pc = "stream", !.temp = <<>>]
  /\ bk' = BkIdle
  /\ UNCHANGED <<envVars, fsVars, budget, requested, drvVars, h>>

\* line 53: perform_with_backoff raised; leaving the with block removes the
\* temporary directory.
DlRequestRaised ==
  /\ dl.pc = "request"
  /\ bk.pc = "raised"
  /\ bk.caller = "download_file"
  /\ dl' = [dl EXCEPT !.pc = "raised", !.error = bk.outcome, !.temp = Absent]
  /\ bk' = BkIdle
  /\ UNCHANGED <<envVars, fsVars, budget, requested, drvVars, h>>

\* lines 56-58: one chunk of the body is written to the temporary file.
DlChunk ==
  /\ dl.pc = "stream"
  /\ dl.sent < Len(Body(dl.url))
  /\ dl' = [dl EXCEPT !.temp = Append(@, Body(dl.url)[dl.sent + 1]),
                      !.sent = @ + 1]
  /\ UNCHANGED <<envVars, fsVars, bk, budget, requested, drvVars, h>>

\* line 56: iter_content raises while chunks are outstanding; leaving the
\* with block removes the temporary directory.
DlStreamRaised ==
  /\ dl.pc = "stream"
  /\ dl.sent < Len(Body(dl.url))
  /\ budget.faults > 0
  /\ budget' = [budget EXCEPT !.faults = @ - 1]
  /\ dl' = [dl EXCEPT !.pc = "raised", !.error = StreamError, !.temp = Absent]
  /\ UNCHANGED <<envVars, fsVars, bk, requested, drvVars, h>>

\* lines 59-60: shutil.move(temporary_path, path).  On one filesystem it is a
\* rename; across filesystems it opens the destination for writing and copies.
DlMove ==
  /\ dl.pc = "stream"
  /\ dl.sent = Len(Body(dl.url))
  /\ IF sameFs
       THEN /\ local' = [local EXCEPT ![dl.path] = dl.temp]
            /\ dl' = [dl EXCEPT !.pc = "returned", !.temp = Absent]
       ELSE /\ local' = [local EXCEPT ![dl.path] = <<>>]
            /\ dl' = [dl EXCEPT !.pc = "copy"]
  /\ UNCHANGED <<envVars, dirs, bk, budget, requested, drvVars, h>>

\* line 59: the copy of shutil.move across filesystems, a chunk at a time,
\* then the removal of the source and of the temporary directory.
DlCopy ==
  /\ dl.pc = "copy"
  /\ LET n == Len(local[dl.path]) IN
     IF n < Len(dl.temp)
       THEN /\ local' = [local EXCEPT ![dl.path] = Append(@, dl.temp[n + 1])]
            /\ dl' = dl
       ELSE /\ local' = local
            /\ dl' = [dl EXCEPT !.pc = "returned", !.temp = Absent]
  /\ UNCHANGED <<envVars, dirs, bk, budget, requested, drvVars, h>>

\* --------------------------------------------------------------- shasum

\* hashlib.sha256: a state, update(data) folding the bytes of a block into
\* it, and hexdigest().  The fold is injective on the contents of the model,
\* as SHA-256 is taken to be on files.
Sha256New == 1
RECURSIVE Sha256Update(_, _)
Sha256Update(state, data) ==
  IF data = <<>> THEN state
  ELSE Sha256Update((state * 3 + Head(data) + 1) % 256, Tail(data))
\* hexdigest(): the state as two hexadecimal digits.
HexDigest(state) == <<state \div 16, state % 16>>

\* lines 78-90, for a file: the blocks of the file are folded into the state.
Shasum(content) == HexDigest(Sha256Update(Sha256New, content))

\* The asset record the remote publishes: the size and the digest are those of
\* the body it serves.  A digest of another algorithm has another width.
Digest(kind, body) ==
  IF kind = "sha256" THEN [kind |-> kind, value |-> Shasum(body)]
  ELSE IF kind = "none" THEN [kind |-> kind, value |-> <<>>]
  ELSE [kind |-> kind, value |-> Shasum(body) \o Shasum(body)]
AssetRecord(a) ==
  [name |-> a, size |-> Len(remote.body[a]),
   digest |-> Digest(remote.kind[a], remote.body[a]), url |-> AssetUrl(a)]

\* -------------------------------------------------------- get_paginated

GenIdle ==
  [pc |-> "none", repo |-> 0, page |-> 0, idx |-> 0, item |-> 0,
   yielded |-> <<>>]

\* lines 155-158: gh_releases returns the generator; its body has not started.
GhReleases(repo) == [GenIdle EXCEPT !.pc = "unstarted", !.repo = repo]

\* line 164: response.json() of page k.
PageItems(repo, k) == remote.pages[repo][k]
\* line 166: "next" in response.links.
HasNextStopsAtEmptyPage(repo, k) ==
  k < Len(remote.pages[repo]) /\ remote.pages[repo][k] # <<>>
HasNext(repo, k) == k < Len(remote.pages[repo])

\* lines 164-168: the generator runs from the for loop over the page's items
\* to its next yield, its return, or the request for the next page.
GenContinueDropsLastOfPage(g) ==
  IF /\ g.idx < Len(PageItems(g.repo, g.page))
     /\ ~(g.idx + 1 = Len(PageItems(g.repo, g.page)) /\ HasNext(g.repo, g.page))
    THEN [g EXCEPT !.pc = "yield", !.idx = @ + 1,
                   !.item = PageItems(g.repo, g.page)[g.idx + 1],
                   !.yielded = Append(@, PageItems(g.repo, g.page)[g.idx + 1])]
  ELSE IF ~HasNext(g.repo, g.page)
    THEN [g EXCEPT !.pc = "done", !.item = 0]
  ELSE [g EXCEPT !.pc = "request", !.page = @ + 1, !.idx = 0, !.item = 0]
GenContinue(g) ==
  IF g.idx < Len(PageItems(g.repo, g.page))
    THEN [g EXCEPT !.pc = "yield", !.idx = @ + 1,
                   !.item = PageItems(g.repo, g.page)[g.idx + 1],
                   !.yielded = Append(@, PageItems(g.repo, g.page)[g.idx + 1])]
  ELSE IF ~HasNext(g.repo, g.page)
    THEN [g EXCEPT !.pc = "done", !.item = 0]
  ELSE [g EXCEPT !.pc = "request", !.page = @ + 1, !.idx = 0, !.item = 0]

\* The consumer asks for the next item: a generator not started runs to the
\* request of line 162, one suspended at the yield of line 165 goes on.
GenNext(g) ==
  IF g.pc = "unstarted"
    THEN [g EXCEPT !.pc = "request", !.page = 1, !.idx = 0]
    ELSE GenContinue(g)

\* The call of perform_with_backoff a generator in state g waits for, if any.
GenRequest(g) ==
  IF g.pc = "request"
    THEN BkCall("get_paginated", PageUrl(g.repo, g.page))
    ELSE BkIdle

\* next() on the generator (the for statement of its consumer).
GetPaginatedNext ==
  /\ gen.pc \in {"unstarted", "yield"}
  /\ bk.pc = "idle"
  /\ gen' = GenNext(gen)
  /\ bk' = GenRequest(gen')
  /\ UNCHANGED <<envVars, fsVars, budget, requested, dl, options>>

\* lines 162, 168: the page arrived; the generator goes on with its items.
GetPaginatedResponse ==
  /\ gen.pc = "request"
  /\ bk.pc = "returned"
  /\ bk.caller = "get_paginated"
  /\ gen' = GenContinue(gen)
  /\ bk' = GenRequest(gen')
  /\ UNCHANGED <<envVars, fsVars, budget, requested, dl, options>>

\* lines 162, 168: perform_with_backoff raised; the exception leaves the
\* generator, which is finished by it.
GetPaginatedRaisedReturns ==
  /\ gen.pc = "request"
  /\ bk.pc = "raised"
  /\ bk.caller = "get_paginated"
  /\ gen' = [gen EXCEPT !.pc = "done", !.item = 0]
  /\ bk' = BkIdle
  /\ UNCHANGED <<envVars, fsVars, budget, requested, dl, options>>
GetPaginatedRaised ==
  /\ gen.pc = "request"
  /\ bk.pc = "raised"
  /\ bk.caller = "get_paginated"
  /\ gen' = [gen EXCEPT !.pc = "raised", !.item = 0]
  /\ bk' = BkIdle
  /\ UNCHANGED <<envVars, fsVars, budget, requested, dl, options>>

\* ----------------------------------------------------------------- main

\* The caller of a unit specification has observed nothing yet.
HIdle == [calls |-> 0, prevSleeps |-> 0, result |-> 0]

\* main.repo is the index in options.repository of the repository at hand.
MainIdle == [pc |-> "repository", repo |-> 1, release |-> 0, asset |-> 0,
             error |-> 0]

\* No comparison of the asset was made in this run.
Unseen == <<-2>>

\* The URLs of a sequence of download_file calls.
Range(seq) == {seq[i] : i \in 1..Len(seq)}

\* What main took up, in the order it did: a repository (line 205), a
\* release (line 210), an asset (line 243).
Event(kind, id) == [kind |-> kind, id |-> id]

RunFirst(n) ==
  [n |-> n, fetched |-> <<>>, seen |-> [a \in AssetIds |-> Unseen],
   prevDone |-> FALSE, changed |-> {}, hist |-> <<>>, log |-> <<>>,
   published |-> {}, prevEnd |-> "none", prevPublished |-> {},
   prevSkipped |-> {}]

\* line 248: "digest" in asset and asset["digest"] is not None
HasDigest(asset) == asset.digest.kind # "none"

\* lines 248-267: the conditions under which the loop continues with the next
\* asset without a download; content is the file at asset_path, or Absent.
\* With a digest (whatever its kind, line 250 only logs) the digest of the
\* file is compared with the digest value; without, the sizes are compared.
SkipsOnSizeToo(asset, content) ==
  /\ content # Absent
  /\ \/ HasDigest(asset) /\ Shasum(content) = asset.digest.value
     \/ Len(content) = asset.size
SkipsWhenPresent(asset, content) == content # Absent
SkipsOnDigestOnly(asset, content) ==
  /\ content # Absent
  /\ HasDigest(asset)
  /\ Shasum(content) = asset.digest.value
Skips(asset, content) ==
  /\ content # Absent
  /\ IF HasDigest(asset)
       THEN Shasum(content) = asset.digest.value
       ELSE Len(content) = asset.size

\* lines 205-269 hold no try statement: an exception raised under main leaves
\* the loops over the assets, the releases and the repositories, and main.
OnErrorNextRepository(m, e) ==
  [m EXCEPT !.pc = "repository", !.repo = @ + 1, !.error = e]
OnError(m, e) == [m EXCEPT !.pc = "failed", !.error = e]

\* lines 272-273: the exit status of the process: 0 when main returned, 1 when
\* an exception left it.
ExitStatus(m) ==
  IF m.pc = "done" THEN 0 ELSE IF m.pc = "failed" THEN 1 ELSE -1

\* The consumer's side of an item, the end or a pending page of the generator.
AfterGenSkipsFirstAsset(g) ==
  IF g.pc = "yield"
    THEN [main EXCEPT !.pc = "release", !.release = g.item, !.asset = 1]
  ELSE IF g.pc = "done"
    THEN [main EXCEPT !.pc = "repository", !.repo = @ + 1, !.release = 0]
  ELSE main
AfterGen(g) ==
  IF g.pc = "yield"
    THEN [main EXCEPT !.pc = "release", !.release = g.item, !.asset = 0]
  ELSE IF g.pc = "done"
    THEN [main EXCEPT !.pc = "repository", !.repo = @ + 1, !.release = 0]
  ELSE main

\* lines 205-210: the next repository: its directory and its generator; after
\* the last one main returns.
MainRepository ==
  /\ main.pc = "repository"
  /\ IF main.repo > Len(options.repository)
       THEN /\ main' = [main EXCEPT !.pc = "done"]
            /\ UNCHANGED <<dirs, gen, run>>
       ELSE /\ dirs' = dirs \cup
                 {RepositoryDirectory(options.repository[main.repo])}
            /\ gen' = GhReleases(options.repository[main.repo])
            /\ run' = [run EXCEPT !.log = Append(@,
                 Event("repository", options.repository[main.repo]))]
            /\ main' = [main EXCEPT !.pc = "releases"]
  /\ UNCHANGED <<envVars, local, bk, budget, requested, dl, options, h>>

\* line 210: the for statement asks the generator for the next release.
MainNextRelease ==
  /\ main.pc = "releases"
  /\ GetPaginatedNext
  /\ main' = AfterGen(gen')
  /\ UNCHANGED <<run, h>>

\* line 210: a page arrived while the for statement waits for a release.
MainPageResponse ==
  /\ main.pc = "releases"
  /\ GetPaginatedResponse
  /\ main' = AfterGen(gen')
  /\ UNCHANGED <<run, h>>

\* line 210: the generator raised; the exception leaves main.
MainPageRaised ==
  /\ main.pc = "releases"
  /\ main' = OnError(main, bk.outcome)
  /\ GetPaginatedRaised
  /\ UNCHANGED <<run, h>>

\* lines 211-234: the release directory and the two descriptive files; then
\* the head request for the source, or the loop over the assets.
MainRelease ==
  /\ main.pc = "release"
  /\ dirs' = dirs \cup {ReleaseDirectory(main.release)}
  /\ local' = [local EXCEPT ![ReleaseJsonPath(main.release)] = <<main.release>>,
                            ![DescriptionPath(main.release)] = <<main.release>>]
  /\ IF options.download_source
       THEN /\ bk' = BkCall("main", TarballUrl(main.release))
            /\ main' = [main EXCEPT !.pc = "source_head"]
       ELSE /\ bk' = bk
            /\ main' = [main EXCEPT !.pc = "assets"]
  /\ run' = [run EXCEPT !.log = Append(@, Event("release", main.release))]
  /\ UNCHANGED <<envVars, budget, requested, dl, gen, options, h>>

\* line 239: os.path.exists(source_path), given what the path holds.
SourceExistsNever(content) == FALSE
SourceExists(content) == content # Absent

\* lines 235-241: the filename of the header names the source path; the source
\* is downloaded if nothing exists there.
MainSourceHead ==
  /\ main.pc = "source_head"
  /\ bk.pc = "returned"
  /\ bk.caller = "main"
  /\ IF ~SourceExists(local[SourcePath(main.release)])
       THEN /\ dl' = DlCall("source", TarballUrl(main.release),
                            SourcePath(main.release))
            /\ bk' = BkCall("download_file", TarballUrl(main.release))
            /\ run' = [run EXCEPT
                 !.fetched = Append(@, TarballUrl(main.release))]
            /\ main' = [main EXCEPT !.pc = "source_download"]
       ELSE /\ dl' = dl
            /\ bk' = BkIdle
            /\ run' = run
            /\ main' = [main EXCEPT !.pc = "assets"]
  /\ UNCHANGED <<envVars, fsVars, budget, requested, gen, options, h>>

\* line 234: perform_with_backoff raised; the exception leaves main.
MainSourceHeadRaised ==
  /\ main.pc = "source_head"
  /\ bk.pc = "raised"
  /\ bk.caller = "main"
  /\ main' = OnError(main, bk.outcome)
  /\ bk' = BkIdle
  /\ UNCHANGED <<envVars, fsVars, budget, requested, dl, gen, run, options, h>>

\* lines 243-269: the next asset of the release: skipped, or downloaded; after
\* the last one the for statement over the releases goes on.
MainAsset ==
  /\ main.pc = "assets"
  /\ LET assets == remote.assets[main.release] IN
     IF main.asset >= Len(assets)
       THEN /\ main' = [main EXCEPT !.pc = "releases"]
            /\ UNCHANGED <<bk, dl, run>>
       ELSE LET a == assets[main.asset + 1]
                content == local[AssetPath(a)]
            IN IF Skips(AssetRecord(a), content)
                 THEN /\ main' = [main EXCEPT !.asset = @ + 1]
                      /\ run' = [run EXCEPT
                           !.seen[a] = content,
                           !.log = Append(@, Event("asset", a))]
                      /\ UNCHANGED <<bk, dl>>
                 ELSE /\ main' = [main EXCEPT !.pc = "asset_download"]
                      /\ run' = [run EXCEPT
                           !.seen[a] = content,
                           !.log = Append(@, Event("asset", a)),
                           !.fetched = Append(@, AssetUrl(a))]
                      /\ dl' = DlCall("asset", AssetUrl(a), AssetPath(a))
                      /\ bk' = BkCall("download_file", AssetUrl(a))
  /\ UNCHANGED <<envVars, fsVars, budget, requested, gen, options, h>>

\* lines 241, 269: download_file returned.
MainDownloaded ==
  /\ main.pc \in {"source_download", "asset_download"}
  /\ dl.pc = "returned"
  /\ main' = IF main.pc = "source_download"
               THEN [main EXCEPT !.pc = "assets"]
               ELSE [main EXCEPT !.pc = "assets", !.asset = @ + 1]
  /\ dl' = DlIdle
  /\ run' = [run EXCEPT !.published = @ \cup {dl.url}]
  /\ UNCHANGED <<envVars, fsVars, bk, budget, requested, gen, options, h>>

\* lines 241, 269: download_file raised; the exception leaves main.
MainDownloadRaised ==
  /\ main.pc \in {"source_download", "asset_download"}
  /\ dl.pc = "raised"
  /\ main' = OnError(main, dl.error)
  /\ dl' = DlIdle
  /\ UNCHANGED <<envVars, fsVars, bk, budget, requested, gen, run, options, h>>

Ended == main.pc \in {"done", "failed", "killed"}

\* The process is terminated from outside: nothing of it runs any more, and
\* what it wrote stays as it is.
Interrupt ==
  /\ ~Ended
  /\ budget.faults > 0
  /\ budget' = [budget EXCEPT !.faults = @ - 1]
  /\ main' = [main EXCEPT !.pc = "killed"]
  /\ bk' = [bk EXCEPT !.pc = IF @ = "idle" THEN @ ELSE "killed"]
  /\ dl' = [dl EXCEPT !.pc = IF @ = "idle" THEN @ ELSE "killed"]
  /\ gen' = [gen EXCEPT !.pc = IF @ = "none" THEN @ ELSE "killed"]
  /\ UNCHANGED <<envVars, fsVars, requested, run, options, h>>

\* Between two runs the remote side may replace assets: another body, and
\* with it another size and digest in the asset's record.
NewBody(body) == IF body = BodyA THEN BodyB ELSE BodyA

\* lines 272-273: the program is started again over the same output
\* directory, after the assets of changed were replaced on the remote side.
StartRun ==
  /\ Ended
  /\ run.n < budget.runs
  /\ \E changed \in SUBSET AssetIds :
       /\ Cardinality(changed) <= budget.changes
       /\ budget' = [budget EXCEPT !.changes = @ - Cardinality(changed)]
       /\ remote' = [remote EXCEPT !.body =
            [a \in AssetIds |-> IF a \in changed THEN NewBody(@[a]) ELSE @[a]]]
       /\ run' = [RunFirst(run.n + 1) EXCEPT
            !.prevDone = (main.pc = "done"),
            !.prevEnd = main.pc,
            !.prevPublished = run.published,
            !.prevSkipped =
              {AssetUrl(a) : a \in {b \in AssetIds :
                 run.seen[b] # Unseen /\ AssetUrl(b) \notin Range(run.fetched)}},
            !.changed = changed,
            !.hist = Append(run.hist, Range(run.fetched))]
  /\ main' = MainIdle
  /\ bk' = BkIdle
  /\ dl' = DlIdle
  /\ gen' = GenIdle
  /\ requested' = {}
  /\ UNCHANGED <<environ, sameFs, fsVars, options, h>>

\* The remote states and command lines of the runs: two repositories, three
\* releases over one or two pages, two assets in one release or in two,
\* without and with --download-source.
LayoutA ==
  [pages |-> <<(<< <<1>>, <<2>> >>), (<< <<3>> >>)>>,
   assets |-> <<(<<1, 2>>), <<>>, <<>> >>, download_source |-> FALSE]
LayoutB ==
  [pages |-> <<(<< <<1, 2>> >>), (<< <<>>, <<3>> >>)>>,
   assets |-> <<(<<>>), <<1>>, <<2>> >>, download_source |-> TRUE]
Layouts == {LayoutA, LayoutB}

\* The contents an asset's path may hold before the first run: nothing, the
\* remote body, other bytes of the same size, another size (the first asset);
\* nothing or the remote body (the others).
InitialContents(a) ==
  IF a = 1 THEN {Absent, BodyA, BodyB, BodyC} ELSE {Absent, BodyA}

\* What the environment does over the runs of main: retries and replaced
\* assets over MaxRuns runs, or failures over MaxFaultRuns runs.
Budgets ==
  {[retries |-> MaxRunRetries, faults |-> 0, changes |-> MaxChanges,
    runs |-> MaxRuns],
   [retries |-> 0, faults |-> MaxFaults, changes |-> 0,
    runs |-> MaxFaultRuns]}

\* The surroundings of the runs.  Where the remote retries and replaces, the
\* process runs with or without GITHUB_TOKEN; where requests fail, body
\* streams break and the process is terminated, the temporary directory is on
\* the filesystem of the output directory or on another one.
Scenarios ==
  {[budget |-> b, sameFs |-> TRUE, environ |-> e] :
     b \in {c \in Budgets : c.faults = 0}, e \in SUBSET {"GITHUB_TOKEN"}}
  \cup
  {[budget |-> b, sameFs |-> f, environ |-> {"GITHUB_TOKEN"}] :
     b \in {c \in Budgets : c.faults > 0}, f \in BOOLEAN}

Init ==
  /\ \E layout \in Layouts, kind \in [AssetIds -> Kinds] :
       /\ remote = [pages |-> layout.pages, assets |-> layout.assets,
                    kind |-> kind, body |-> [a \in AssetIds |-> BodyA]]
       /\ options = [download_source |-> layout.download_source,
                     repository |-> <<1, 2>>]
  /\ \E scenario \in Scenarios :
       /\ budget = scenario.budget
       /\ sameFs = scenario.sameFs
       /\ environ = scenario.environ
  /\ \E c \in [AssetIds -> {Absent, BodyA, BodyB, BodyC}] :
       /\ \A a \in AssetIds : c[a] \in InitialContents(a)
       /\ local = [p \in Paths |->
                     IF p.kind = "asset" THEN c[p.id] ELSE Absent]
  /\ dirs = {}
  /\ bk = BkIdle
  /\ requested = {}
  /\ dl = DlIdle
  /\ gen = GenIdle
  /\ main = MainIdle
  /\ run = RunFirst(1)
  /\ h = HIdle

Next ==
  \/ MainRepository
  \/ MainNextRelease
  \/ MainPageResponse
  \/ MainPageRaised
  \/ MainRelease
  \/ MainSourceHead
  \/ MainSourceHeadRaised
  \/ MainAsset
  \/ MainDownloaded
  \/ MainDownloadRaised
  \/ BkAttempt
  \/ BkSleep
  \/ DlOpen
  \/ DlRequestRaised
  \/ DlChunk
  \/ DlStreamRaised
  \/ DlMove
  \/ DlCopy
  \/ Interrupt
  \/ StartRun

\* Runs of main over one output directory, one after the other.
Spec == Init /\ [][Next]_vars

\* ---------------------------------------------------- gh_release_assets

ReleaseUrl(r) == [kind |-> "release", id |-> r, page |-> 0]

\* line 150: the call perform_with_backoff(requests.get, url, ACCEPT_JSON)
GhReleaseAssets ==
  /\ bk.pc = "idle"
  /\ h.calls < MaxCalls
  /\ bk' = BkCall("gh_release_assets", ReleaseUrl(h.calls + 1))
  /\ budget' = [retries |-> MaxRetries, faults |-> 1, changes |-> 0, runs |-> 0]
  /\ UNCHANGED <<envVars, fsVars, requested, dl, drvVars, h>>

\* lines 150-152: the response is read and the URLs are returned.
GhReleaseAssetsReturn ==
  /\ bk.pc = "returned"
  /\ bk.caller = "gh_release_assets"
  /\ h' = [calls |-> h.calls + 1, prevSleeps |-> Len(bk.sleeps),
           result |-> bk.response]
  /\ bk' = BkIdle
  /\ UNCHANGED <<envVars, fsVars, budget, requested, dl, drvVars>>

\* line 150: an exception of perform_with_backoff leaves gh_release_assets.
GhReleaseAssetsRaise ==
  /\ bk.pc = "raised"
  /\ bk.caller = "gh_release_assets"
  /\ h' = [calls |-> h.calls + 1, prevSleeps |-> Len(bk.sleeps),
           result |-> bk.outcome]
  /\ bk' = BkIdle
  /\ UNCHANGED <<envVars, fsVars, budget, requested, dl, drvVars>>

\* A remote with no release and an empty mirror.
RemoteEmpty ==
  [pages |-> [repo \in Repos |-> << <<>> >>],
   assets |-> [r \in Releases |-> <<>>],
   kind |-> [a \in AssetIds |-> "none"],
   body |-> [a \in AssetIds |-> BodyA]]

InitBackoff ==
  /\ remote = RemoteEmpty
  /\ sameFs = TRUE
  /\ environ \in SUBSET {"GITHUB_TOKEN"}
  /\ local = [p \in Paths |-> Absent]
  /\ dirs = {}
  /\ dl = DlIdle
  /\ gen = GenIdle
  /\ main = MainIdle
  /\ run = RunFirst(1)
  /\ options = [download_source |-> FALSE, repository |-> <<1>>]
  /\ bk = BkIdle
  /\ budget = [retries |-> 0, faults |-> 0, changes |-> 0, runs |-> 0]
  /\ requested = {}
  /\ h = HIdle

NextBackoff ==
  \/ GhReleaseAssets
  \/ BkAttempt
  \/ BkSleep
  \/ GhReleaseAssetsReturn
  \/ GhReleaseAssetsRaise

\* Calls of perform_with_backoff by gh_release_assets, one after the other.
SpecBackoff == InitBackoff /\ [][NextBackoff]_vars

\* ------------------------------------------------------- Sleeper.sleep

\* Time in tenths of a second.
Tenths(seconds) == seconds * 10
\* line 102: polling_duration = 0.2
PollingDuration == 2

\* line 116: self.duration - self.polling_duration.  The values are floats:
\* the difference is the exact one, or off by a rounding error, which shows
\* when the exact difference is 0 and the float is a little above it (a sleep
\* of 16 s ends after 81 polls, one of 8 s after 40).  A remainder of 1
\* stands for such a positive value below one polling duration.
SleeperStepStuck(remaining) == {remaining}
SleeperStep(remaining) ==
  IF remaining - PollingDuration = 0 THEN {0, 1}
  ELSE {remaining - PollingDuration}

\* lines 142, 109-110: sleeper.sleep(duration) is entered.
SleeperSleep ==
  /\ bk.pc = "sleep"
  /\ bk' = [bk EXCEPT !.pc = "polling", !.remaining = Tenths(bk.duration),
                      !.polls = 0]
  /\ UNCHANGED <<envVars, fsVars, budget, requested, dl, drvVars, h>>

\* lines 111-116: one pass of the loop: time.sleep(polling_duration) and the
\* subtraction.
SleeperPoll ==
  /\ bk.pc = "polling"
  /\ bk.remaining > 0
  /\ \E r \in SleeperStep(bk.remaining) :
       bk' = [bk EXCEPT !.remaining = r, !.polls = @ + 1]
  /\ UNCHANGED <<envVars, fsVars, budget, requested, dl, drvVars, h>>

\* lines 111, 143: the loop of sleep ends, sleep returns and the duration of
\* the next sleep is set.
SleeperReturn ==
  /\ bk.pc = "polling"
  /\ bk.remaining <= 0
  /\ bk' = [bk EXCEPT
       !.sleeps = Append(@, bk.duration),
       !.duration = NextDuration(@),
       !.pc = "attempt"]
  /\ UNCHANGED <<envVars, fsVars, budget, requested, dl, drvVars, h>>

NextSleeper ==
  \/ GhReleaseAssets
  \/ BkAttempt
  \/ SleeperSleep
  \/ SleeperPoll
  \/ SleeperReturn
  \/ GhReleaseAssetsReturn
  \/ GhReleaseAssetsRaise

\* Calls of perform_with_backoff by gh_release_assets with the sleeps taken
\* poll by poll.  The thread is not stopped: a step of the call that can be
\* taken is taken, and the remote answers every attempt.
InitSleeper == InitBackoff /\ environ = {}
FairSleeper ==
  /\ WF_vars(BkAttempt)
  /\ WF_vars(SleeperSleep)
  /\ WF_vars(SleeperPoll)
  /\ WF_vars(SleeperReturn)
SpecSleeper == InitSleeper /\ [][NextSleeper]_vars /\ FairSleeper

\* ------------------------------------- a consumer of get_paginated alone

\* The page chains: 1..MaxPages pages of 0..MaxPerPage items, the items
\* numbered in the order of the chain.
RECURSIVE SumTo(_, _)
SumTo(sizes, k) == IF k = 0 THEN 0 ELSE sizes[k] + SumTo(sizes, k - 1)
Chain(sizes) ==
  [k \in 1..Len(sizes) |-> [i \in 1..sizes[k] |-> SumTo(sizes, k - 1) + i]]
Chains ==
  UNION {{Chain(sizes) : sizes \in [1..n -> 0..MaxPerPage]} : n \in 1..MaxPages}

\* lines 155-158: gh_releases(repository) for the first repository.
PgStart ==
  /\ gen.pc = "none"
  /\ gen' = GhReleases(1)
  /\ budget' = [retries |-> MaxRunRetries, faults |-> 1, changes |-> 0, runs |-> 0]
  /\ UNCHANGED <<envVars, fsVars, bk, requested, dl, main, run, options, h>>

\* line 210: a for statement over the generator, with an empty body.
PgNext == GetPaginatedNext /\ UNCHANGED <<main, run, h>>
PgResponse == GetPaginatedResponse /\ UNCHANGED <<main, run, h>>
\* The exception of the generator reaches the for statement.
PgRaised ==
  /\ h' = [h EXCEPT !.result = bk.outcome]
  /\ GetPaginatedRaised
  /\ UNCHANGED <<main, run>>

InitPaginate ==
  /\ \E chain \in Chains :
       remote = [RemoteEmpty EXCEPT !.pages[1] = chain]
  /\ sameFs = TRUE
  /\ environ = {}
  /\ local = [p \in Paths |-> Absent]
  /\ dirs = {}
  /\ dl = DlIdle
  /\ gen = GenIdle
  /\ main = MainIdle
  /\ run = RunFirst(1)
  /\ options = [download_source |-> FALSE, repository |-> <<1>>]
  /\ bk = BkIdle
  /\ budget = [retries |-> 0, faults |-> 0, changes |-> 0, runs |-> 0]
  /\ requested = {}
  /\ h = HIdle

NextPaginate ==
  \/ PgStart
  \/ PgNext
  \/ PgResponse
  \/ PgRaised
  \/ BkAttempt
  \/ BkSleep

\* One paginated sequence consumed to its end.
SpecPaginate == InitPaginate /\ [][NextPaginate]_vars

\* ------------------------------------------------- a caller of shasum alone

\* The NameError of line 81: the module defines and imports no name listdir.
NameError == -4

\* File names, and their order under sorted(): "." sorts before the letters.
Names == {".h", "a", "b"}
NameRank(name) == CASE name = ".h" -> 1 [] name = "a" -> 2 [] name = "b" -> 3

\* What a path holds: a file with its content, or a directory with what each
\* name in it holds.
File(data) == [kind |-> "file", data |-> data]
Directory(children) == [kind |-> "dir", children |-> children]
RECURSIVE Trees(_)
Trees(depth) ==
  {File(data) : data \in {BodyA, BodyB, BodyC}}
    \cup (IF depth = 0 THEN {}
          ELSE UNION {{Directory(c) : c \in [names -> Trees(depth - 1)]} :
                        names \in SUBSET Names})

\* The orders in which the filesystem may list the names of a directory.
Listings(names) ==
  {l \in [1..Cardinality(names) -> names] :
     \A i, j \in 1..Cardinality(names) : l[i] = l[j] => i = j}

\* lines 78-82, for a directory: the name listdir is looked up to be called,
\* and the lookup raises.
ShasumDirectory ==
  /\ h.pc = "called"
  /\ h.node.kind = "dir"
  /\ h' = [h EXCEPT !.pc = "raised", !.result = NameError]
  /\ UNCHANGED <<envVars, fsVars, bk, budget, requested, dl, drvVars>>

\* lines 78-90, for a file.
ShasumFile ==
  /\ h.pc = "called"
  /\ h.node.kind = "file"
  /\ h' = [h EXCEPT !.pc = "returned", !.result = Shasum(h.node.data)]
  /\ UNCHANGED <<envVars, fsVars, bk, budget, requested, dl, drvVars>>

InitShasum ==
  /\ remote = RemoteEmpty
  /\ sameFs = TRUE
  /\ environ = {}
  /\ local = [p \in Paths |-> Absent]
  /\ dirs = {}
  /\ dl = DlIdle
  /\ gen = GenIdle
  /\ main = MainIdle
  /\ run = RunFirst(1)
  /\ options = [download_source |-> FALSE, repository |-> <<1>>]
  /\ bk = BkIdle
  /\ budget = [retries |-> 0, faults |-> 0, changes |-> 0, runs |-> 0]
  /\ requested = {}
  /\ \E node \in Trees(MaxDepth) :
       \E listing \in (IF node.kind = "dir"
                          THEN Listings(DOMAIN node.children) ELSE {<<>>}) :
         h = [pc |-> "called", node |-> node, listing |-> listing,
              result |-> 0]

NextShasum ==
  \/ ShasumDirectory
  \/ ShasumFile

\* One call of shasum on a path that holds a file or a directory.
SpecShasum == InitShasum /\ [][NextShasum]_vars

\* ---------------------------------------------------------------- claims

\* What the claims speak of.

\* The download_file calls of this run for asset a.
Fetches(a) == Cardinality({i \in 1..Len(run.fetched) : run.fetched[i] = AssetUrl(a)})
\* The asset was compared in this run.
Compared(a) == run.seen[a] # Unseen
\* The asset was compared in this run and not downloaded.
Skipped(a) == Compared(a) /\ Fetches(a) = 0
\* The outcome of the comparison of section 4.3 for an asset with a
\* recognized digest or none, given the content found at its path.
Outcome(a, content) ==
  IF content = Absent THEN "absent"
  ELSE IF remote.kind[a] = "sha256"
    THEN IF Shasum(content) = AssetRecord(a).digest.value
           THEN "match" ELSE "mismatch"
  ELSE IF Len(content) = AssetRecord(a).size
    THEN "unverifiable-present" ELSE "mismatch"
TransientOutcomes == {403, 429, 502, 504, RemoteDisconnected}

\* C1: when main has run to completion and is run again while the remote
\* state is unchanged, the second run calls download_file zero times.
C1_SecondRunFetchesNothing ==
  (run.n >= 2 /\ run.prevDone /\ run.changed = {}) => run.fetched = <<>>

\* C2: per asset and per run download_file is called at most once, and for an
\* asset with a sha256 digest exactly when the comparison finds the artifact
\* absent or its digest different: once in a run that finds nothing, not at
\* all in a run after a completed run with the remote digest unchanged, once
\* in a run after a completed run with the remote digest changed.
C2_FetchOncePerRunWhenAbsentOrMismatch ==
  \A a \in AssetIds :
    /\ Fetches(a) <= 1
    /\ ~Compared(a) => Fetches(a) = 0
    /\ (remote.kind[a] = "sha256" /\ Compared(a)) =>
         /\ Fetches(a) = 1 <=>
              Outcome(a, run.seen[a]) \in {"absent", "mismatch"}
         /\ run.seen[a] = Absent => Fetches(a) = 1
         /\ (run.prevDone /\ a \notin run.changed) => Fetches(a) = 0
         /\ (run.prevDone /\ a \in run.changed) => Fetches(a) = 1
\* The third of three completed runs over an asset with a sha256 digest: the
\* first found nothing and fetched it, the second fetched nothing, the remote
\* digest then changed and the third fetched it again.
C2_Witness ==
  \E a \in AssetIds :
    /\ remote.kind[a] = "sha256"
    /\ run.n = 3
    /\ main.pc = "done"
    /\ Len(run.hist) = 2
    /\ AssetUrl(a) \in run.hist[1]
    /\ AssetUrl(a) \notin run.hist[2]
    /\ a \in run.changed
    /\ Fetches(a) = 1
    /\ local[AssetPath(a)] = remote.body[a]

\* C3: an asset with a sha256 digest whose local artifact exists is skipped
\* iff the digest shasum computes over the artifact equals the hex value of
\* the record's digest, whatever the size of the file and the record's size.
C3_SkipIffDigestsEqual ==
  \A a \in AssetIds :
    (remote.kind[a] = "sha256" /\ Compared(a) /\ run.seen[a] # Absent) =>
      (Skipped(a) <=> Shasum(run.seen[a]) = AssetRecord(a).digest.value)
\* A file of the record's size with another digest was found and the asset
\* was downloaded again.
C3_Witness ==
  \E a \in AssetIds :
    /\ remote.kind[a] = "sha256"
    /\ Compared(a)
    /\ run.seen[a] # Absent
    /\ Len(run.seen[a]) = AssetRecord(a).size
    /\ Shasum(run.seen[a]) # AssetRecord(a).digest.value
    /\ Fetches(a) = 1

\* C4: an asset whose digest names another algorithm than sha256 is handled
\* by the no-digest policy: an existing artifact is skipped when its size
\* equals the record's size and fetched again when the sizes differ.
C4_OtherAlgorithmComparesSizes ==
  \A a \in AssetIds :
    (remote.kind[a] = "sha512" /\ Compared(a) /\ run.seen[a] # Absent) =>
      (Skipped(a) <=> Len(run.seen[a]) = AssetRecord(a).size)

\* C5: an asset without a digest is skipped when the local file exists with
\* the record's size, fetched again when it exists with another size, and
\* fetched when it is absent; no request for the asset precedes the decision,
\* and none is made when it is skipped.
C5_NoDigestComparesSizes ==
  \A a \in AssetIds :
    (remote.kind[a] = "none" /\ Compared(a)) =>
      /\ (run.seen[a] # Absent /\ Len(run.seen[a]) = AssetRecord(a).size) =>
           (Fetches(a) = 0 /\ AssetUrl(a) \notin requested)
      /\ (run.seen[a] # Absent /\ Len(run.seen[a]) # AssetRecord(a).size) =>
           Fetches(a) = 1
      /\ run.seen[a] = Absent => Fetches(a) = 1
      /\ (bk.url = AssetUrl(a) /\ bk.attempts = 0) =>
           AssetUrl(a) \notin requested
\* A file of the record's size and other bytes was found and skipped, and the
\* run went on to its end.
C5_Witness ==
  \E a \in AssetIds :
    /\ remote.kind[a] = "none"
    /\ run.seen[a] = BodyB
    /\ remote.body[a] = BodyA
    /\ Fetches(a) = 0
    /\ main.pc = "done"

\* C6: in every state of a download_file call, also when the request fails,
\* the body stream fails or the process is terminated, the destination holds
\* its content from before the call or the complete body of the response.
C6_DestinationOldOrComplete ==
  dl.pc # "idle" => local[dl.path] \in {dl.before, Body(dl.url)}

\* C7: within one perform_with_backoff call the k-th sleep has duration
\* min(8 * 2^(k-1), 60): 8, 16, 32, 60, 60, ...; no sleep exceeds 60, and the
\* sleep a call is about to request is the next of that sequence, so every
\* call starts again from 8 whatever the retries of the calls before it.
ExpectedSleep(k) == Min(8 * 2^(k - 1), 60)
C7_BackoffSequence ==
  /\ \A k \in 1..Len(bk.sleeps) :
       bk.sleeps[k] = ExpectedSleep(k) /\ bk.sleeps[k] <= 60
  /\ bk.pc \in {"attempt", "sleep"} =>
       bk.duration = ExpectedSleep(Len(bk.sleeps) + 1)
\* A second call that slept five times (8, 16, 32, 60, 60) after a first call
\* that slept at least four times.
C7_Witness ==
  /\ h.calls >= 1
  /\ h.prevSleeps >= 4
  /\ Len(bk.sleeps) >= 5
  /\ bk.sleeps[1] = 8
  /\ bk.sleeps[5] = 60

\* C8: an attempt is followed by a sleep and another attempt iff its outcome
\* is a status in {403, 429, 502, 504} or a peer-closed-connection fault; any
\* other status ends the loop at that attempt with no sleep: the response is
\* returned when the status is a success, an error is raised when it is a
\* 4xx/5xx outside the retryable set.
C8_RetryIffRetryable ==
  [][/\ (bk.pc = "attempt" /\ bk'.attempts = bk.attempts + 1) =>
          LET o == bk'.outcome IN
          /\ bk'.pc = "sleep" <=>
               (o \in {403, 429, 502, 504} \/ o = RemoteDisconnected)
          /\ bk'.sleeps = bk.sleeps
          /\ (o \in Statuses \ {403, 429, 502, 504}) =>
               /\ o < 400 => (bk'.pc = "returned" /\ bk'.response = o)
               /\ o >= 400 => bk'.pc = "raised"
     /\ (bk.pc = "sleep" /\ bk' # bk) =>
          /\ bk'.pc = "attempt"
          /\ bk'.sleeps = Append(bk.sleeps, bk.duration)
          /\ bk'.attempts = bk.attempts
     /\ (bk.pc = "attempt" /\ bk'.pc = "attempt") => bk' = bk
    ]_vars
\* A call that slept after a retryable outcome, attempted again and was ended
\* by a 404 at that attempt.
C8_Witness ==
  /\ bk.pc = "raised"
  /\ bk.outcome = 404
  /\ bk.attempts = 3
  /\ Len(bk.sleeps) = 2

\* C9: perform_with_backoff neither returns a response with status 403, 429,
\* 502 or 504 nor raises an error caused by such a status or by a peer-closed
\* connection, and no caller (paginator, fetcher, sync driver, the caller of
\* gh_release_assets) observes one.
C9_TransientNeverSurfaces ==
  /\ bk.pc = "returned" => bk.response \notin TransientOutcomes
  /\ bk.pc = "raised" => bk.outcome \notin TransientOutcomes
  /\ dl.error \notin TransientOutcomes
  /\ main.error \notin TransientOutcomes
  /\ h.result \notin TransientOutcomes
\* The request of an asset download was answered by two retryable outcomes,
\* a status and a closed connection, and then by the response that
\* perform_with_backoff returns to download_file.
C9_Witness ==
  /\ bk.pc = "returned"
  /\ bk.caller = "download_file"
  /\ main.pc = "asset_download"
  /\ bk.sleeps = <<8, 16>>
  /\ bk.attempts = 3
  /\ bk.response = 200

\* C10: over a chain of pages whose fetches all succeed get_paginated yields
\* the concatenation of the pages' items, in page order and then in-page
\* order, each item once, and then ends; it yields as many items as the
\* pages hold together.
RECURSIVE Flatten(_)
Flatten(pages) ==
  IF pages = <<>> THEN <<>> ELSE Head(pages) \o Flatten(Tail(pages))
RECURSIVE SumLen(_)
SumLen(pages) ==
  IF pages = <<>> THEN 0 ELSE Len(Head(pages)) + SumLen(Tail(pages))
C10_YieldsConcatenation ==
  LET chain == remote.pages[1] IN
  /\ gen.pc \in {"request", "yield", "done"} =>
       /\ Len(gen.yielded) <= SumLen(chain)
       /\ gen.yielded = SubSeq(Flatten(chain), 1, Len(gen.yielded))
  /\ gen.pc = "done" =>
       /\ gen.yielded = Flatten(chain)
       /\ Len(gen.yielded) = SumLen(chain)
       /\ \A i, j \in 1..Len(gen.yielded) :
            gen.yielded[i] = gen.yielded[j] => i = j
\* A chain of three pages with an empty page in the middle, all four items
\* yielded, after a retried page fetch.
C10_Witness ==
  /\ gen.pc = "done"
  /\ Len(remote.pages[1]) = 3
  /\ remote.pages[1][2] = <<>>
  /\ gen.yielded = <<1, 2, 3, 4>>
  /\ budget.retries = 0

\* C11: get_paginated is a streaming production.  No page is requested before
\* the consumer asks for the first item; a request for page k is issued only
\* when every item of the pages before k was handed to the consumer and the
\* consumer asks for more, so that main has finished every release of those
\* pages (descriptive files written, every asset compared and its download,
\* if any, over) before page k is requested.
PagesBefore(repo, k) == Flatten(SubSeq(remote.pages[repo], 1, k - 1))
Logged(e) == \E i \in 1..Len(run.log) : run.log[i] = e
ReleaseFinished(r) ==
  /\ Logged(Event("release", r))
  /\ local[ReleaseJsonPath(r)] # Absent
  /\ local[DescriptionPath(r)] # Absent
  /\ \A i \in 1..Len(remote.assets[r]) :
       /\ Logged(Event("asset", remote.assets[r][i]))
       /\ ~(dl.pc \notin {"idle", "killed"} /\ dl.url = AssetUrl(remote.assets[r][i]))
C11_Streaming ==
  /\ gen.pc = "unstarted" =>
       /\ bk.pc = "idle"
       /\ \A u \in requested : ~(u.kind = "releases" /\ u.id = gen.repo)
  /\ \A repo \in Repos : \A k \in 1..Len(remote.pages[repo]) :
       (PageUrl(repo, k) \in requested
          \/ (bk.pc # "idle" /\ bk.url = PageUrl(repo, k))) =>
         \A r \in Range(PagesBefore(repo, k)) : ReleaseFinished(r)
  /\ (bk.pc \notin {"idle", "killed"} /\ bk.caller = "get_paginated") =>
       /\ main.pc = "releases"
       /\ gen.pc = "request"
       /\ bk.url = PageUrl(gen.repo, gen.page)
       /\ gen.yielded = PagesBefore(gen.repo, gen.page)
\* The second page of a repository is being requested after the release of
\* its first page was finished: one of its assets downloaded, the other
\* compared.
C11_Witness ==
  /\ bk.pc = "attempt"
  /\ bk.attempts = 0
  /\ bk.url = PageUrl(1, 2)
  /\ gen.yielded = <<1>>
  /\ remote.assets[1] = <<1, 2>>
  /\ Fetches(1) = 1
  /\ Compared(2)
  /\ local[AssetPath(1)] = remote.body[1]

\* C12: when the fetch of page k ends in the error of perform_with_backoff,
\* get_paginated has yielded exactly the items of pages 1..k-1, the error
\* reaches the consumer, and from then on nothing is yielded and no page is
\* requested.
C12_PageErrorEndsSequence ==
  /\ [](gen.pc = "raised" =>
         /\ gen.yielded = PagesBefore(1, gen.page)
         /\ h.result \in Outcomes \ (TransientOutcomes \cup {200})
         /\ bk.pc = "idle"
         /\ \A u \in requested : u.page <= gen.page)
  /\ []((gen.pc # "none" /\ budget.faults = 0 /\ bk.pc = "idle") =>
         gen.pc = "raised")
  /\ [][gen.pc = "raised" => (gen' = gen /\ requested' = requested)]_vars
\* The fetch of the third page ended in a 500 after the three items of the
\* first two pages were yielded and a page fetch was retried.
C12_Witness ==
  /\ gen.pc = "raised"
  /\ gen.page = 3
  /\ gen.yielded = <<1, 2, 3>>
  /\ h.result = 500
  /\ budget.retries < MaxRunRetries

\* C13: a status that is neither a success nor retryable, on any request made
\* while a repository is processed, is raised at that attempt without a sleep
\* or another attempt; the exception travels up to main while no release and
\* no asset is taken up, nothing is requested and nothing is written; main
\* ends there and the exit status of the process is not zero.
TerminalStatuses == {s \in Statuses : s >= 400} \ {403, 429, 502, 504}
ErrorPending == bk.pc = "raised" \/ dl.pc = "raised"
C13_TerminalErrorEndsRun ==
  /\ [][(bk.pc = "attempt" /\ bk'.attempts = bk.attempts + 1
            /\ bk'.outcome \in TerminalStatuses) =>
          (bk'.pc = "raised" /\ bk'.sleeps = bk.sleeps)]_vars
  /\ [][(ErrorPending /\ main.pc \notin {"failed", "killed"}) =>
          /\ ErrorPending' \/ main'.pc \in {"failed", "killed"}
          /\ run' = run
          /\ requested' = requested
          /\ local' = local
          /\ dirs' = dirs]_vars
  /\ [][main.pc = "failed" =>
          (run'.n = run.n + 1 \/ (main' = main /\ run' = run
             /\ requested' = requested /\ local' = local /\ dirs' = dirs))]_vars
  /\ [](main.pc = "failed" =>
         (ExitStatus(main) # 0 /\ main.error \in Outcomes \cup {StreamError}
            /\ main.error \notin TransientOutcomes \cup {200}))
  /\ [](ExitStatus(main) = 0 => main.error = 0)
\* The download of the first asset of a release ended in a 404: main failed
\* with it while the second asset of the release and the second repository
\* were not taken up.
C13_Witness ==
  /\ main.pc = "failed"
  /\ main.error = 404
  /\ ExitStatus(main) = 1
  /\ remote.assets[1] = <<1, 2>>
  /\ run.log = <<Event("repository", 1), Event("release", 1), Event("asset", 1)>>
  /\ run.seen[2] = Unseen
  /\ RepositoryDirectory(2) \notin dirs

\* C14: when a run is terminated, every asset it published is present and
\* complete and the asset it was downloading holds what it held before the
\* call or the complete body, never a part of it; a run started then against
\* the same remote state finds the published assets complete and downloads
\* none of the assets the terminated run published or found matching.
C14_TerminatedRunResumes ==
  /\ main.pc = "killed" =>
       /\ \A a \in AssetIds : AssetUrl(a) \in run.published =>
             local[AssetPath(a)] = remote.body[a]
       /\ dl.pc = "killed" => local[dl.path] \in {dl.before, Body(dl.url)}
  /\ (run.n >= 2 /\ run.prevEnd = "killed" /\ run.changed = {}) =>
       \A a \in AssetIds :
         /\ AssetUrl(a) \in run.prevPublished =>
              local[AssetPath(a)] = remote.body[a]
         /\ AssetUrl(a) \in run.prevPublished \cup run.prevSkipped =>
              Fetches(a) = 0

\* C15: with --download-source the source archive of a release is downloaded
\* iff nothing exists at the path the header's filename names; without the
\* option no request is made for it.  A source path that holds a file is
\* never downloaded to again and its content is never read or replaced, in
\* this run and in later ones.
SourceFetches(r) ==
  Cardinality({i \in 1..Len(run.fetched) : run.fetched[i] = TarballUrl(r)})
RECURSIVE ExpectedReleases(_)
ExpectedReleases(rs) ==
  IF rs = <<>> THEN <<>>
  ELSE <<Event("release", Head(rs))>>
         \o [i \in 1..Len(remote.assets[Head(rs)]) |->
               Event("asset", remote.assets[Head(rs)][i])]
         \o ExpectedReleases(Tail(rs))
RECURSIVE ExpectedLog(_)
ExpectedLog(repos) ==
  IF repos = <<>> THEN <<>>
  ELSE <<Event("repository", Head(repos))>>
         \o ExpectedReleases(Flatten(remote.pages[Head(repos)]))
         \o ExpectedLog(Tail(repos))
Downloading == dl.pc \notin {"idle", "killed"}
C16_SequentialTraversal ==
  LET expected == ExpectedLog(options.repository) IN
  /\ Len(run.log) <= Len(expected)
  /\ run.log = SubSeq(expected, 1, Len(run.log))
  /\ main.pc = "done" => run.log = expected
  /\ \A r \in Releases : \A i \in 1..Len(remote.assets[r]) :
       Logged(Event("asset", remote.assets[r][i])) =>
         /\ Logged(Event("release", r))
         /\ local[ReleaseJsonPath(r)] = <<r>>
         /\ local[DescriptionPath(r)] = <<r>>
  /\ Downloading =>
       /\ main.pc \in {"source_download", "asset_download"}
       /\ gen.pc = "yield"
       /\ gen.item = main.release
       /\ main.pc = "source_download" =>
            (dl.url = TarballUrl(main.release) /\ run.log[Len(run.log)] = Event("release", main.release))
       /\ main.pc = "asset_download" =>
            /\ dl.url = AssetUrl(remote.assets[main.release][main.asset + 1])
            /\ run.log[Len(run.log)] =
                 Event("asset", remote.assets[main.release][main.asset + 1])
       /\ run.fetched[Len(run.fetched)] = dl.url
       /\ Range(run.fetched) = run.published \cup {dl.url}
  /\ (bk.pc \notin {"idle", "killed"} /\ bk.caller = "download_file") =>
       (dl.pc = "request" /\ bk.url = dl.url)
  /\ main.pc \in {"repository", "releases", "release", "source_head", "assets", "done"} =>
       (dl.pc = "idle" /\ Range(run.fetched) = run.published)
\* A first run with --download-source that ended after three source archives
\* and two assets of two repositories were downloaded, one after the other.
C16_Witness ==
  /\ run.n = 1
  /\ main.pc = "done"
  /\ options.download_source
  /\ run.fetched =
       <<TarballUrl(1), TarballUrl(2), AssetUrl(1), TarballUrl(3), AssetUrl(2)>>
  /\ Len(run.log) = 7

\* C17: every attempt, the first of a call and the retried ones, for a page,
\* the header request of a source archive, a source archive or an asset,
\* carries the Accept header and the API version header, and carries the
\* bearer credential iff GITHUB_TOKEN is in the environment; a request is
\* made by an attempt of perform_with_backoff only.
HasHeader(headers, name) == \E pair \in headers : pair[1] = name
C17_HeadersOnEveryAttempt ==
  /\ [](bk.attempts > 0 =>
         /\ <<"Accept", IF bk.url.kind = "asset"
                           THEN "application/octet-stream"
                           ELSE "application/vnd.github+json">> \in bk.wire
         /\ <<"X-GitHub-Api-Version", "2022-11-28">> \in bk.wire
         /\ HasHeader(bk.wire, "Authorization") <=> "GITHUB_TOKEN" \in environ
         /\ HasHeader(bk.wire, "Authorization") =>
              <<"Authorization", "Bearer GITHUB_TOKEN">> \in bk.wire
         /\ Cardinality(bk.wire) = IF "GITHUB_TOKEN" \in environ THEN 3 ELSE 2)
  /\ [][bk'.attempts > bk.attempts =>
          (bk'.attempts = bk.attempts + 1 /\ bk'.wire = bk.headers
             /\ bk.pc = "attempt")]_vars
  /\ [][~(requested' \subseteq requested) =>
          (bk.pc = "attempt" /\ bk'.attempts = bk.attempts + 1
             /\ requested' = requested \cup {bk.url})]_vars
  /\ [](\A u \in requested : u.kind \in {"releases", "tarball", "asset", "release"})
\* A second run without GITHUB_TOKEN and with --download-source: the retried
\* attempt for an asset, after pages, the header request of a source archive
\* and another asset were requested.
C17_Witness ==
  /\ environ = {}
  /\ bk.url = AssetUrl(2)
  /\ bk.attempts = 2
  /\ bk.wire = {<<"Accept", "application/octet-stream">>,
                <<"X-GitHub-Api-Version", "2022-11-28">>}
  /\ PageUrl(1, 1) \in requested
  /\ AssetUrl(1) \in requested
  /\ options.download_source
  /\ TarballUrl(3) \in requested
  /\ run.n = 2

\* C18: the digest shasum computes for a directory is the digest of the
\* concatenation of the hex digests of its visible children, taken in the
\* sorted order of their names, recursively, whatever the order in which the
\* filesystem lists them.
Visible(names) == {name \in names : name # ".h"}
RECURSIVE SortedNames(_)
SortedNames(names) ==
  IF names = {} THEN <<>>
  ELSE LET first == CHOOSE n \in names :
                      \A m \in names : NameRank(n) <= NameRank(m)
       IN <<first>> \o SortedNames(names \ {first})
RECURSIVE ExpectedDigest(_)
ExpectedDigest(node) ==
  IF node.kind = "file" THEN Shasum(node.data)
  ELSE LET sorted == SortedNames(Visible(DOMAIN node.children))
           digests == [i \in 1..Len(sorted) |->
                         ExpectedDigest(node.children[sorted[i]])]
       IN HexDigest(Sha256Update(Sha256New, Flatten(digests)))
C18_DirectoryDigest ==
  (h.pc \in {"returned", "raised"} /\ h.node.kind = "dir") =>
    (h.pc = "returned" /\ h.result = ExpectedDigest(h.node))

\* C19: every sleep of Sleeper.sleep ends after finitely many polls (five per
\* second of its duration, or one more); a perform_with_backoff call whose
\* attempts the remote answers, in the end with an outcome that is not
\* retried, returns or raises; it has then made one attempt after each sleep
\* and the first attempt before any sleep.
C19_RetryLoopTerminates ==
  /\ (bk.pc = "polling") ~> (bk.pc = "attempt")
  /\ (bk.pc \in {"attempt", "sleep", "polling"}) ~>
       (bk.pc \in {"returned", "raised"})
  /\ [](bk.pc = "polling" => bk.polls <= 5 * bk.duration + 1)
  /\ []((bk.pc = "polling" /\ bk.remaining <= 0) =>
         bk.polls \in {5 * bk.duration, 5 * bk.duration + 1})
  /\ [](bk.pc \in {"returned", "raised"} => bk.attempts = Len(bk.sleeps) + 1)
  /\ [](bk.pc \in {"sleep", "polling"} => bk.attempts = Len(bk.sleeps) + 1)
  /\ [](bk.pc = "attempt" => bk.attempts = Len(bk.sleeps))
\* A call returned after two sleeps, the second of 16 s ended by its 81st
\* poll.
C19_Witness ==
  /\ bk.pc = "returned"
  /\ bk.sleeps = <<8, 16>>
  /\ bk.attempts = 3
  /\ bk.polls = 81

\* C20: an error raised while the i-th repository of the command line is
\* processed ends the run: for no repository after the i-th is a request
\* made, a directory created or a file written, and nothing is requested or
\* written any more; what the run published stays where it is.
PathOf(url) ==
  IF url.kind = "asset" THEN AssetPath(url.id) ELSE SourcePath(url.id)
C20_ErrorEndsWholeRun ==
  /\ [](main.error # 0 =>
         /\ main.pc = "failed"
         /\ \A j \in (main.repo + 1)..Len(options.repository) :
              LET repo == options.repository[j] IN
              /\ ~Logged(Event("repository", repo))
              /\ \A u \in requested : ~(u.kind = "releases" /\ u.id = repo)
              /\ \A r \in Range(Flatten(remote.pages[repo])) :
                   /\ ~Logged(Event("release", r))
                   /\ TarballUrl(r) \notin requested
                   /\ \A i \in 1..Len(remote.assets[r]) :
                        /\ AssetUrl(remote.assets[r][i]) \notin requested
                        /\ ~Compared(remote.assets[r][i])
                   /\ run.n = 1 =>
                        /\ RepositoryDirectory(repo) \notin dirs
                        /\ ReleaseDirectory(r) \notin dirs
                        /\ local[ReleaseJsonPath(r)] = Absent
                        /\ local[DescriptionPath(r)] = Absent
                        /\ local[SourcePath(r)] = Absent
         /\ \A u \in run.published : local[PathOf(u)] = Body(u))
  /\ [][(main.error # 0 /\ run'.n = run.n) =>
          (local' = local /\ dirs' = dirs /\ requested' = requested
             /\ run' = run /\ main' = main)]_vars
\* A first run that failed with a 500 in the first of two repositories after
\* it had published an asset: nothing of the second repository exists.
C20_Witness ==
  /\ run.n = 1
  /\ main.error = 500
  /\ main.repo = 1
  /\ Len(options.repository) = 2
  /\ AssetUrl(1) \in run.published
  /\ local[AssetPath(1)] = remote.body[1]
  /\ RepositoryDirectory(2) \notin dirs

====
